---- MODULE Spec2Model ----
(***************************************************************************)
(* Repository versioning of pulpcore (pulpcore/app/models/repository.py):  *)
(* the RepositoryContent ledger, the RepositoryVersion lifecycle           *)
(* (new_version, add_content, remove_content, __exit__, delete) and the    *)
(* squash of a deleted complete version into its successor.                *)
(*                                                                         *)
(* A version is identified by <<repository, number>> (unique_together).    *)
(* Every action is one call of the modelled method, taken atomically.      *)
(* Callers keep the access contract of the versioning engine: a repository *)
(* has at most one open (incomplete) version at a time, and a complete     *)
(* version is deleted only while no version of its repository is open.     *)
(* Task.current is taken to be unset, so no CreatedResource rows exist.    *)
(***************************************************************************)
EXTENDS Integers, FiniteSets, Sequences, TLC

\* ---------------------------------------------------------------- bounds
NumRepos == 2
NumContent == 2
MaxVersion == 2
MaxHistory == 3
ScenarioContent == 3
ScenarioVersions == 2
NumProcs == 2

Repos == 1..NumRepos
Contents == 1..NumContent
Procs == 1..NumProcs

\* null foreign key
None == <<>>

\* no exception raised
NoException == "NoException"

ResourceImmutableError == "ResourceImmutableError"
IntegrityError == "IntegrityError"
HookError == "HookError"
BodyError == "BodyError"
\* the process that runs a call is killed or loses its database connection
Interrupted == "Interrupted"

ADDED == "A"
PRESENT == "P"
REMOVED == "R"
COUNT_TYPE_CHOICES == {ADDED, PRESENT, REMOVED}

\* the content type of a unit (Content.pulp_type): two types, by parity
pulp_type(c) == c % 2
ContentTypes == {pulp_type(c) : c \in Contents}

VARIABLES
    repositories,   \* saved Repository rows
    last_version,   \* Repository.last_version, per repository
    versions,       \* RepositoryVersion rows
    ledger,         \* RepositoryContent rows
    counts,         \* RepositoryVersionContentDetails rows
    raised,         \* the exception the last call raised, NoException if none
    begun,          \* per repository: the state new_version started from
    handle,         \* per process and repository: last_version of the Repository
                    \* object the process holds in memory
    deleting,       \* the delete() of a complete version that is under way
    ever            \* per repository: the numbers of the versions that were
                    \* complete at some time (history)

vars == <<repositories, last_version, versions, ledger, counts, raised, begun,
          handle, deleting, ever>>

\* ------------------------------------------------------------ row helpers
Id(v) == <<v.repository, v.number>>

Ids(vs) == {Id(v) : v \in vs}

Row(vs, id) == CHOOSE v \in vs : Id(v) = id

IsComplete(vs, id) == id \in Ids(vs) /\ Row(vs, id).complete

CompleteIds(vs) == {Id(v) : v \in {w \in vs : w.complete}}

OpenIds(vs) == {Id(v) : v \in {w \in vs : ~w.complete}}

RepositoryContent(c, r, va, vr) ==
    [content |-> c, repository |-> r, version_added |-> va, version_removed |-> vr]

RepositoryVersion(r, n, cmpl, base) ==
    [repository |-> r, number |-> n, complete |-> cmpl, base_version |-> base]

\* unique_together of RepositoryContent, evaluated on the images img[rc] of the
\* rows under a pending UPDATE (NULLs never collide)
UniqueViolated(img) ==
    \E a \in DOMAIN img : \E b \in DOMAIN img :
        /\ a # b
        /\ img[a].repository = img[b].repository
        /\ img[a].content = img[b].content
        /\ \/ img[a].version_added = img[b].version_added
           \/ /\ img[a].version_removed # None
              /\ img[a].version_removed = img[b].version_removed

\* ------------------------------------------------------------ queries
\* (variant: the filter on the repository is missing)
Relationships_AnyRepository(led, v) ==
    {rc \in led :
        /\ rc.version_added[2] <= v[2]
        /\ ~(rc.version_removed # None /\ rc.version_removed[2] <= v[2])}

\* (variant: the exclusion of the records removed at or before the version is
\* missing)
Relationships_NoExclude(led, v) ==
    {rc \in led :
        /\ rc.repository = v[1]
        /\ rc.version_added[2] <= v[2]}

Relationships(led, v) ==
    {rc \in led :
        /\ rc.repository = v[1]
        /\ rc.version_added[2] <= v[2]
        /\ ~(rc.version_removed # None /\ rc.version_removed[2] <= v[2])}

content(led, v) == {rc.content : rc \in Relationships(led, v)}

added(led, v) == {rc.content : rc \in {x \in led : x.version_added = v}}

removed(led, v) == {rc.content : rc \in {x \in led : x.version_removed = v}}

contains(led, v, c) == c \in content(led, v)

\* ------------------------------------------------------------ mutation
\* Each method returns the ledger it leaves and the exception it raises.
Result(led, exc) == [ledger |-> led, exc |-> exc]

\* (variant: the ids that the version already contains are not excluded)
add_content_NoExclude(led, vs, v, S) ==
    LET repo_content ==
            {RepositoryContent(c, v[1], v, None) : c \in S}
        duplicate ==
            \E nr \in repo_content : \E rc \in led :
                /\ rc.repository = nr.repository
                /\ rc.content = nr.content
                /\ rc.version_added = nr.version_added
    IN  IF IsComplete(vs, v) THEN Result(led, ResourceImmutableError)
        ELSE IF duplicate THEN Result(led, IntegrityError)
        ELSE Result(led \cup repo_content, NoException)

\* (variant: the check of self.complete is missing)
add_content_Unchecked(led, vs, v, S) ==
    LET repo_content ==
            {RepositoryContent(c, v[1], v, None) : c \in S \ content(led, v)}
        duplicate ==
            \E nr \in repo_content : \E rc \in led :
                /\ rc.repository = nr.repository
                /\ rc.content = nr.content
                /\ rc.version_added = nr.version_added
    IN  IF duplicate THEN Result(led, IntegrityError)
        ELSE Result(led \cup repo_content, NoException)

add_content(led, vs, v, S) ==
    LET repo_content ==
            {RepositoryContent(c, v[1], v, None) : c \in S \ content(led, v)}
        duplicate ==
            \E nr \in repo_content : \E rc \in led :
                /\ rc.repository = nr.repository
                /\ rc.content = nr.content
                /\ rc.version_added = nr.version_added
    IN  IF IsComplete(vs, v) THEN Result(led, ResourceImmutableError)
        ELSE IF duplicate THEN Result(led, IntegrityError)
        ELSE Result(led \cup repo_content, NoException)

\* (variant: the filter on the repository is missing)
remove_content_AnyRepository(led, vs, v, S) ==
    LET q_set == {rc \in led : rc.content \in S /\ rc.version_removed = None}
        img(rc) == IF rc \in q_set THEN [rc EXCEPT !.version_removed = v] ELSE rc
    IN  IF IsComplete(vs, v) THEN Result(led, ResourceImmutableError)
        ELSE IF UniqueViolated([rc \in led |-> img(rc)]) THEN Result(led, IntegrityError)
        ELSE Result({img(rc) : rc \in led}, NoException)

\* (variant: the filter content_id__in=content is missing)
remove_content_Everything(led, vs, v, S) ==
    LET q_set == {rc \in led : rc.repository = v[1] /\ rc.version_removed = None}
        img(rc) == IF rc \in q_set THEN [rc EXCEPT !.version_removed = v] ELSE rc
    IN  IF IsComplete(vs, v) THEN Result(led, ResourceImmutableError)
        ELSE IF UniqueViolated([rc \in led |-> img(rc)]) THEN Result(led, IntegrityError)
        ELSE Result({img(rc) : rc \in led}, NoException)

\* (variant: the filter version_removed=None is missing)
remove_content_AnyRecord(led, vs, v, S) ==
    LET q_set == {rc \in led : rc.repository = v[1] /\ rc.content \in S}
        img(rc) == IF rc \in q_set THEN [rc EXCEPT !.version_removed = v] ELSE rc
    IN  IF IsComplete(vs, v) THEN Result(led, ResourceImmutableError)
        ELSE IF UniqueViolated([rc \in led |-> img(rc)]) THEN Result(led, IntegrityError)
        ELSE Result({img(rc) : rc \in led}, NoException)

remove_content(led, vs, v, S) ==
    LET q_set == {rc \in led : /\ rc.repository = v[1]
                               /\ rc.content \in S
                               /\ rc.version_removed = None}
        img(rc) == IF rc \in q_set THEN [rc EXCEPT !.version_removed = v] ELSE rc
    IN  IF IsComplete(vs, v) THEN Result(led, ResourceImmutableError)
        ELSE IF UniqueViolated([rc \in led |-> img(rc)]) THEN Result(led, IntegrityError)
        ELSE Result({img(rc) : rc \in led}, NoException)

\* ------------------------------------------------------------ row deletion
\* Model.delete() of a RepositoryVersion row: on_delete=CASCADE for the
\* ledger rows and count rows naming it, SET_NULL for base_version.
CascadeLedger(led, v) ==
    {rc \in led : rc.version_added # v /\ rc.version_removed # v}

CascadeVersions(vs, v) ==
    {IF w.base_version = v THEN [w EXCEPT !.base_version = None] ELSE w :
        w \in {x \in vs : Id(x) # v}}

CascadeCounts(cnts, v) == {row \in cnts : row.repository_version # v}

\* ------------------------------------------------------------ next / previous
HasNext(vs, v) ==
    \E w \in CompleteIds(vs) : w[1] = v[1] /\ w[2] > v[2]

\* (variant: the versions are ordered by descending number)
next_Last(vs, v) ==
    CHOOSE w \in CompleteIds(vs) :
        /\ w[1] = v[1] /\ w[2] > v[2]
        /\ \A x \in CompleteIds(vs) : (x[1] = v[1] /\ x[2] > v[2]) => w[2] >= x[2]

next(vs, v) ==
    CHOOSE w \in CompleteIds(vs) :
        /\ w[1] = v[1] /\ w[2] > v[2]
        /\ \A x \in CompleteIds(vs) : (x[1] = v[1] /\ x[2] > v[2]) => w[2] <= x[2]

HasPrevious(vs, v) ==
    \E w \in CompleteIds(vs) : w[1] = v[1] /\ w[2] < v[2]

previous(vs, v) ==
    CHOOSE w \in CompleteIds(vs) :
        /\ w[1] = v[1] /\ w[2] < v[2]
        /\ \A x \in CompleteIds(vs) : (x[1] = v[1] /\ x[2] < v[2]) => w[2] >= x[2]

\* Repository.latest_version(): the version numbered last_version, None when
\* there is no such row
latest_version(vs, lv, r) ==
    IF <<r, lv[r]>> \in Ids(vs) THEN <<r, lv[r]>> ELSE None

\* ------------------------------------------------------------ squash / delete
\* The statements of _squash run one after the other outside any transaction:
\* a constraint violation leaves the rows as the earlier statements made them.
\* (variant: the records added by the version and removed by the next one are
\* not deleted first)
squash_KeepAddedThenRemoved(led, self, next_version) ==
    LET repo_relations(l) == {rc \in l : rc.repository = self[1]}
        s1 == led
        content_added ==
            {rc.content : rc \in {x \in repo_relations(s1) : x.version_added = next_version}}
        content_removed_and_readded ==
            {rc.content : rc \in {x \in repo_relations(s1) :
                x.version_removed = self /\ x.content \in content_added}}
        s2 == {IF /\ rc \in repo_relations(s1)
                  /\ rc.version_removed = self
                  /\ rc.content \in content_removed_and_readded
               THEN [rc EXCEPT !.version_removed = None] ELSE rc : rc \in s1}
        s3 == s2 \ {rc \in repo_relations(s2) :
                        /\ rc.version_added = next_version
                        /\ rc.content \in content_removed_and_readded}
        move_added(rc) ==
            IF rc \in repo_relations(s3) /\ rc.version_added = self
            THEN [rc EXCEPT !.version_added = next_version] ELSE rc
        s4 == {move_added(rc) : rc \in s3}
        move_removed(rc) ==
            IF rc \in repo_relations(s4) /\ rc.version_removed = self
            THEN [rc EXCEPT !.version_removed = next_version] ELSE rc
        s5 == {move_removed(rc) : rc \in s4}
    IN  IF UniqueViolated([rc \in s3 |-> move_added(rc)]) THEN Result(s3, IntegrityError)
        ELSE IF UniqueViolated([rc \in s4 |-> move_removed(rc)]) THEN Result(s4, IntegrityError)
        ELSE Result(s5, NoException)

\* (variant: the removals made by the version are not moved to the next one)
squash_KeepRemovals(led, self, next_version) ==
    LET repo_relations(l) == {rc \in l : rc.repository = self[1]}
        s1 == led \ {rc \in repo_relations(led) :
                        rc.version_added = self /\ rc.version_removed = next_version}
        content_added ==
            {rc.content : rc \in {x \in repo_relations(s1) : x.version_added = next_version}}
        content_removed_and_readded ==
            {rc.content : rc \in {x \in repo_relations(s1) :
                x.version_removed = self /\ x.content \in content_added}}
        s2 == {IF /\ rc \in repo_relations(s1)
                  /\ rc.version_removed = self
                  /\ rc.content \in content_removed_and_readded
               THEN [rc EXCEPT !.version_removed = None] ELSE rc : rc \in s1}
        s3 == s2 \ {rc \in repo_relations(s2) :
                        /\ rc.version_added = next_version
                        /\ rc.content \in content_removed_and_readded}
        move_added(rc) ==
            IF rc \in repo_relations(s3) /\ rc.version_added = self
            THEN [rc EXCEPT !.version_added = next_version] ELSE rc
        s4 == {move_added(rc) : rc \in s3}
    IN  IF UniqueViolated([rc \in s3 |-> move_added(rc)]) THEN Result(s3, IntegrityError)
        ELSE Result(s4, NoException)

squash(led, self, next_version) ==
    LET repo_relations(l) == {rc \in l : rc.repository = self[1]}
        s1 == led \ {rc \in repo_relations(led) :
                        rc.version_added = self /\ rc.version_removed = next_version}
        content_added ==
            {rc.content : rc \in {x \in repo_relations(s1) : x.version_added = next_version}}
        content_removed_and_readded ==
            {rc.content : rc \in {x \in repo_relations(s1) :
                x.version_removed = self /\ x.content \in content_added}}
        s2 == {IF /\ rc \in repo_relations(s1)
                  /\ rc.version_removed = self
                  /\ rc.content \in content_removed_and_readded
               THEN [rc EXCEPT !.version_removed = None] ELSE rc : rc \in s1}
        s3 == s2 \ {rc \in repo_relations(s2) :
                        /\ rc.version_added = next_version
                        /\ rc.content \in content_removed_and_readded}
        move_added(rc) ==
            IF rc \in repo_relations(s3) /\ rc.version_added = self
            THEN [rc EXCEPT !.version_added = next_version] ELSE rc
        s4 == {move_added(rc) : rc \in s3}
        move_removed(rc) ==
            IF rc \in repo_relations(s4) /\ rc.version_removed = self
            THEN [rc EXCEPT !.version_removed = next_version] ELSE rc
        s5 == {move_removed(rc) : rc \in s4}
    IN  IF UniqueViolated([rc \in s3 |-> move_added(rc)]) THEN Result(s3, IntegrityError)
        ELSE IF UniqueViolated([rc \in s4 |-> move_removed(rc)]) THEN Result(s4, IntegrityError)
        ELSE Result(s5, NoException)

State(led, vs, lv, cnts, exc) ==
    [ledger |-> led, versions |-> vs, last_version |-> lv, counts |-> cnts, exc |-> exc]

\* (variant: the removals made by the version are not cleared)
discard_KeepRemoved(led, self) == {rc \in led : rc.version_added # self}

\* delete() of an incomplete version: the rows it added are deleted, the
\* removals it made are cleared
discard(led, self) ==
    LET d1 == {rc \in led : rc.version_added # self}
    IN  {IF rc.version_removed = self
         THEN [rc EXCEPT !.version_removed = None] ELSE rc : rc \in d1}

\* (variant: last_version is left as it is)
roll_back_Not(lv, self) == lv

\* delete() of an incomplete version: repository.last_version = number - 1
roll_back(lv, self) == [lv EXCEPT ![self[1]] = self[2] - 1]

\* (variant: deleting the latest complete version rolls the counter back)
delete_FreesNumber(led, vs, lv, cnts, self) ==
    IF IsComplete(vs, self)
    THEN LET repo_relations(l) == {rc \in l : rc.repository = self[1]}
         IN  IF HasNext(vs, self)
             THEN LET sq == squash(led, self, next(vs, self))
                  IN  IF sq.exc # NoException
                      THEN State(sq.ledger, vs, lv, cnts, sq.exc)
                      ELSE State(CascadeLedger(sq.ledger, self), CascadeVersions(vs, self),
                                 lv, CascadeCounts(cnts, self), NoException)
             ELSE LET d1 == led \ {rc \in repo_relations(led) : rc.version_added = self}
                      d2 == {IF rc \in repo_relations(d1) /\ rc.version_removed = self
                             THEN [rc EXCEPT !.version_removed = None] ELSE rc : rc \in d1}
                  IN  State(CascadeLedger(d2, self), CascadeVersions(vs, self),
                            roll_back(lv, self), CascadeCounts(cnts, self), NoException)
    ELSE State(CascadeLedger(discard(led, self), self), CascadeVersions(vs, self),
               roll_back(lv, self), CascadeCounts(cnts, self), NoException)

\* (variant: without a successor, the removals made by the version are not
\* cleared before the row is deleted)
delete_NoReactivate(led, vs, lv, cnts, self) ==
    IF IsComplete(vs, self)
    THEN LET repo_relations(l) == {rc \in l : rc.repository = self[1]}
         IN  IF HasNext(vs, self)
             THEN LET sq == squash(led, self, next(vs, self))
                  IN  IF sq.exc # NoException
                      THEN State(sq.ledger, vs, lv, cnts, sq.exc)
                      ELSE State(CascadeLedger(sq.ledger, self), CascadeVersions(vs, self),
                                 lv, CascadeCounts(cnts, self), NoException)
             ELSE LET d1 == led \ {rc \in repo_relations(led) : rc.version_added = self}
                  IN  State(CascadeLedger(d1, self), CascadeVersions(vs, self),
                            lv, CascadeCounts(cnts, self), NoException)
    ELSE State(CascadeLedger(discard(led, self), self), CascadeVersions(vs, self),
               roll_back(lv, self), CascadeCounts(cnts, self), NoException)

delete(led, vs, lv, cnts, self) ==
    IF IsComplete(vs, self)
    THEN LET repo_relations(l) == {rc \in l : rc.repository = self[1]}
         IN  IF HasNext(vs, self)
             THEN LET sq == squash(led, self, next(vs, self))
                  IN  IF sq.exc # NoException
                      THEN State(sq.ledger, vs, lv, cnts, sq.exc)
                      ELSE State(CascadeLedger(sq.ledger, self), CascadeVersions(vs, self),
                                 lv, CascadeCounts(cnts, self), NoException)
             ELSE LET d1 == led \ {rc \in repo_relations(led) : rc.version_added = self}
                      d2 == {IF rc \in repo_relations(d1) /\ rc.version_removed = self
                             THEN [rc EXCEPT !.version_removed = None] ELSE rc : rc \in d1}
                  IN  State(CascadeLedger(d2, self), CascadeVersions(vs, self),
                            lv, CascadeCounts(cnts, self), NoException)
    ELSE State(CascadeLedger(discard(led, self), self), CascadeVersions(vs, self),
               roll_back(lv, self), CascadeCounts(cnts, self), NoException)

\* ------------------------------------------------------------ counts
CountRows(led, self, value) ==
    IF value = ADDED THEN {rc \in led : rc.version_added = self}
    ELSE IF value = PRESENT THEN Relationships(led, self)
    ELSE {rc \in led : rc.version_removed = self}

\* (variant: a row is stored also for a type that has no unit of the kind)
compute_counts_WithZeroRows(led, cnts, self) ==
    LET counts_list ==
            {[repository_version |-> self, content_type |-> t, count_type |-> value,
              count |-> Cardinality({rc \in CountRows(led, self, value) :
                                        pulp_type(rc.content) = t})] :
                t \in ContentTypes, value \in COUNT_TYPE_CHOICES}
    IN  {row \in cnts : row.repository_version # self} \cup counts_list

compute_counts(led, cnts, self) ==
    LET counts_list ==
            {[repository_version |-> self, content_type |-> t, count_type |-> value,
              count |-> Cardinality({rc \in CountRows(led, self, value) :
                                        pulp_type(rc.content) = t})] :
                t \in ContentTypes, value \in COUNT_TYPE_CHOICES}
    IN  {row \in cnts : row.repository_version # self}
            \cup {row \in counts_list : row.count > 0}

\* ------------------------------------------------------------ new_version
\* One transaction.atomic block: an exception rolls everything back.
\* (variant: the content that is not in the base version is not removed)
seed_AddOnly(led, vs, version, base_version) ==
    add_content(led, vs, version, content(led, base_version) \ content(led, version))

\* new_version with a base version: remove what the base does not have, then
\* add what the new version does not have
seed(led, vs, version, base_version) ==
    LET rm == remove_content(led, vs, version,
                             content(led, version) \ content(led, base_version))
    IN  IF rm.exc # NoException THEN Result(led, rm.exc)
        ELSE add_content(rm.ledger, vs, version,
                         content(rm.ledger, base_version) \ content(rm.ledger, version))

\* (variant: no unique constraint on (repository, number))
new_version_Unchecked(led, vs, lv, cnts, r, base_version) ==
    LET number == lv[r] + 1
        version == <<r, number>>
        vs1 == vs \cup {RepositoryVersion(r, number, FALSE, base_version)}
        lv1 == [lv EXCEPT ![r] = number]
        sd == seed(led, vs1, version, base_version)
    IN  IF base_version = None THEN State(led, vs1, lv1, cnts, NoException)
        ELSE IF sd.exc # NoException THEN State(led, vs, lv, cnts, sd.exc)
        ELSE State(sd.ledger, vs1, lv1, cnts, NoException)

new_version(led, vs, lv, cnts, r, base_version) ==
    LET number == lv[r] + 1
        version == <<r, number>>
        vs1 == vs \cup {RepositoryVersion(r, number, FALSE, base_version)}
        lv1 == [lv EXCEPT ![r] = number]
        sd == seed(led, vs1, version, base_version)
    IN  IF version \in Ids(vs) THEN State(led, vs, lv, cnts, IntegrityError)
        ELSE IF base_version = None THEN State(led, vs1, lv1, cnts, NoException)
        ELSE IF sd.exc # NoException THEN State(led, vs, lv, cnts, sd.exc)
        ELSE State(sd.ledger, vs1, lv1, cnts, NoException)

\* ------------------------------------------------------------ __exit__
\* What the plugin's finalize_new_version does with the open version.
HookBehaviours(cs) ==
    {[kind |-> k, ids |-> {}] : k \in {"pass", "raise"}}
        \cup {[kind |-> k, ids |-> {c}] : k \in {"add", "remove"}, c \in cs}

finalize_new_version(led, vs, new_version_, hook) ==
    IF hook.kind = "raise" THEN Result(led, HookError)
    ELSE IF hook.kind = "add" THEN add_content(led, vs, new_version_, hook.ids)
    ELSE IF hook.kind = "remove" THEN remove_content(led, vs, new_version_, hook.ids)
    ELSE Result(led, NoException)

\* (variant: only the removals are looked at)
no_change_RemovedOnly(led, self) == removed(led, self) = {}

\* (variant: only the additions are looked at)
no_change_AddedOnly(led, self) == added(led, self) = {}

no_change(led, self) == added(led, self) = {} /\ removed(led, self) = {}

\* (variant: an exception in the with-body is passed on without delete())
exit_KeepOnException(led, vs, lv, cnts, self, exc_value, hook) ==
    IF exc_value # NoException
    THEN State(led, vs, lv, cnts, exc_value)
    ELSE LET hk == finalize_new_version(led, vs, self, hook)
             done == {IF Id(w) = self THEN [w EXCEPT !.complete = TRUE] ELSE w : w \in vs}
         IN  IF hk.exc # NoException
             THEN [delete(hk.ledger, vs, lv, cnts, self) EXCEPT !.exc = hk.exc]
             ELSE IF no_change(hk.ledger, self)
             THEN delete(hk.ledger, vs, lv, cnts, self)
             ELSE State(hk.ledger, done, lv, compute_counts(hk.ledger, cnts, self), NoException)

\* (variant: complete is set before finalize_new_version is called)
exit_HookAfterComplete(led, vs, lv, cnts, self, exc_value, hook) ==
    IF exc_value # NoException
    THEN [delete(led, vs, lv, cnts, self) EXCEPT !.exc = exc_value]
    ELSE LET done == {IF Id(w) = self THEN [w EXCEPT !.complete = TRUE] ELSE w : w \in vs}
             hk == finalize_new_version(led, done, self, hook)
         IN  IF hk.exc # NoException
             THEN [delete(hk.ledger, vs, lv, cnts, self) EXCEPT !.exc = hk.exc]
             ELSE IF no_change(hk.ledger, self)
             THEN delete(hk.ledger, vs, lv, cnts, self)
             ELSE State(hk.ledger, done, lv, compute_counts(hk.ledger, cnts, self), NoException)

exit(led, vs, lv, cnts, self, exc_value, hook) ==
    IF exc_value # NoException
    THEN [delete(led, vs, lv, cnts, self) EXCEPT !.exc = exc_value]
    ELSE LET hk == finalize_new_version(led, vs, self, hook)
             done == {IF Id(w) = self THEN [w EXCEPT !.complete = TRUE] ELSE w : w \in vs}
         IN  IF hk.exc # NoException
             THEN [delete(hk.ledger, vs, lv, cnts, self) EXCEPT !.exc = hk.exc]
             ELSE IF no_change(hk.ledger, self)
             THEN delete(hk.ledger, vs, lv, cnts, self)
             ELSE State(hk.ledger, done, lv, compute_counts(hk.ledger, cnts, self), NoException)

\* the exception of a database statement of _compute_counts that fails
CountsError == "CountsError"

\* __exit__ without exception in the body when _compute_counts raises: complete
\* is already saved, and the except clause calls delete() on the object
\* with complete = True
exit_counts_raise(led, vs, lv, cnts, self, hook) ==
    LET hk == finalize_new_version(led, vs, self, hook)
        done == {IF Id(w) = self THEN [w EXCEPT !.complete = TRUE] ELSE w : w \in vs}
    IN  IF hk.exc # NoException
        THEN [delete(hk.ledger, vs, lv, cnts, self) EXCEPT !.exc = hk.exc]
        ELSE IF no_change(hk.ledger, self)
        THEN delete(hk.ledger, vs, lv, cnts, self)
        ELSE [delete(hk.ledger, done, lv, cnts, self) EXCEPT !.exc = CountsError]

\* ------------------------------------------------------------ state machine
RowsOf(rows, r) == {x \in rows : x.repository = r}

\* What new_version found in repository r: the rows of r before the call and
\* the rows after seeding from the base version.
Begun(led, vs, lv, r, seeded) ==
    [version |-> <<r, lv[r] + 1>>, ledger |-> RowsOf(led, r), versions |-> RowsOf(vs, r),
     last_version |-> lv[r], seeded |-> RowsOf(seeded, r)]

NotBegun ==
    [version |-> None, ledger |-> {}, versions |-> {}, last_version |-> 0, seeded |-> {}]

\* the call that leaves the rows led, vs changes a row of repository q
Touched(q, led, vs) ==
    \/ RowsOf(led, q) # RowsOf(ledger, q)
    \/ RowsOf(vs, q) # RowsOf(versions, q)

\* the repository of the base version of the version begun in r
BaseRepository(r) ==
    LET b == Row(versions, begun[r].version).base_version
    IN  IF b = None THEN r ELSE b[1]

\* begun[r] is kept while the rows of r and of its base version's repository
\* change only by add_content and remove_content on the version begun in r
\* (v is the version the call works on); any other change forgets it.
KeepBegun(v, led, vs) ==
    [r \in Repos |->
        IF begun[r].version = None THEN NotBegun
        ELSE IF begun[r].version = v THEN begun[r]
        ELSE IF Touched(r, led, vs) \/ Touched(BaseRepository(r), led, vs)
             THEN NotBegun
        ELSE begun[r]]

\* no delete() of a complete version is under way
NotDeleting == [version |-> None, pc |-> 0, ledger |-> {}, readded |-> {}]

\* the history of complete versions follows the version rows
Ever(vs) == [r \in Repos |-> ever[r] \cup {v[2] : v \in {w \in CompleteIds(vs) : w[1] = r}}]

\* a call made with a Repository object fresh from the database, while no
\* delete() is under way, and run to its end
Whole ==
    /\ deleting = NotDeleting
    /\ ever' = Ever(versions')
    /\ UNCHANGED <<handle, deleting>>

RECURSIVE Sum(_, _)
Sum(f, D) == IF D = {} THEN 0 ELSE LET d == CHOOSE x \in D : TRUE IN f[d] + Sum(f, D \ {d})

\* the version numbers handed out and not rolled back, over all repositories
VersionsInUse(lv) == Sum(lv, Repos)

Init ==
    /\ repositories = {}
    /\ last_version = [r \in Repos |-> 0]
    /\ versions = {}
    /\ ledger = {}
    /\ counts = {}
    /\ raised = NoException
    /\ begun = [r \in Repos |-> NotBegun]
    /\ handle = [p \in Procs |-> [r \in Repos |-> 0]]
    /\ deleting = NotDeleting
    /\ ever = [r \in Repos |-> {}]

Apply(st) ==
    /\ ledger' = st.ledger
    /\ versions' = st.versions
    /\ last_version' = st.last_version
    /\ counts' = st.counts

\* (variant: create_initial_version does not pass complete=True)
SaveRepository_Open(r) ==
    /\ r \notin repositories
    /\ repositories' = repositories \cup {r}
    /\ versions' = versions \cup {RepositoryVersion(r, last_version[r], FALSE, None)}
    /\ raised' = NoException
    /\ UNCHANGED <<last_version, ledger, counts, begun>>

\* Repository.save() of a new repository, with create_initial_version()
SaveRepository(r) ==
    /\ r \notin repositories
    /\ repositories' = repositories \cup {r}
    /\ versions' = versions \cup {RepositoryVersion(r, last_version[r], TRUE, None)}
    /\ raised' = NoException
    /\ UNCHANGED <<last_version, ledger, counts, begun>>

\* Repository.new_version(base_version)
NewVersion(r, base_version) ==
    /\ r \in repositories
    /\ \A v \in OpenIds(versions) : v[1] # r
    /\ base_version \in Ids(versions) \cup {None}
    /\ LET st == new_version(ledger, versions, last_version, counts, r, base_version)
       IN  /\ Apply(st)
           /\ raised' = st.exc
           /\ begun' = IF st.exc = NoException
                       THEN [KeepBegun(None, st.ledger, st.versions) EXCEPT
                                ![r] = Begun(ledger, versions, last_version, r, st.ledger)]
                       ELSE begun
    /\ UNCHANGED repositories

\* RepositoryVersion.add_content(content)
AddContent(v, S) ==
    /\ v \in Ids(versions)
    /\ LET res == add_content(ledger, versions, v, S)
       IN  /\ ledger' = res.ledger
           /\ raised' = res.exc
           /\ begun' = KeepBegun(v, res.ledger, versions)
    /\ UNCHANGED <<repositories, last_version, versions, counts>>

\* (variant: remove_content computes the counts of the version)
RemoveContent_Counting(v, S) ==
    /\ v \in Ids(versions)
    /\ LET res == remove_content(ledger, versions, v, S)
       IN  /\ ledger' = res.ledger
           /\ raised' = res.exc
           /\ begun' = KeepBegun(v, res.ledger, versions)
           /\ counts' = compute_counts(res.ledger, counts, v)
    /\ UNCHANGED <<repositories, last_version, versions>>

\* RepositoryVersion.remove_content(content)
RemoveContent(v, S) ==
    /\ v \in Ids(versions)
    /\ LET res == remove_content(ledger, versions, v, S)
       IN  /\ ledger' = res.ledger
           /\ raised' = res.exc
           /\ begun' = KeepBegun(v, res.ledger, versions)
    /\ UNCHANGED <<repositories, last_version, versions, counts>>

\* RepositoryVersion.__exit__ without exception: finalize
ExitNormally(v, hook) ==
    /\ v \in OpenIds(versions)
    /\ LET st == exit(ledger, versions, last_version, counts, v, NoException, hook)
       IN  /\ Apply(st)
           /\ raised' = st.exc
           /\ begun' = [KeepBegun(None, st.ledger, st.versions) EXCEPT ![v[1]] = NotBegun]
    /\ UNCHANGED repositories

\* RepositoryVersion.__exit__ with the exception raised in the with-body
ExitWithException(v, exc_value) ==
    /\ v \in OpenIds(versions)
    /\ LET st == exit(ledger, versions, last_version, counts, v, exc_value,
                      [kind |-> "pass", ids |-> {}])
       IN  /\ Apply(st)
           /\ raised' = st.exc
           /\ begun' = [KeepBegun(None, st.ledger, st.versions) EXCEPT ![v[1]] = NotBegun]
    /\ UNCHANGED repositories

\* RepositoryVersion.delete() of a complete version
DeleteComplete(v) ==
    /\ v \in CompleteIds(versions)
    /\ \A o \in OpenIds(versions) : o[1] # v[1]
    /\ LET st == delete(ledger, versions, last_version, counts, v)
       IN  /\ Apply(st)
           /\ raised' = st.exc
           /\ begun' = [KeepBegun(None, st.ledger, st.versions) EXCEPT ![v[1]] = NotBegun]
    /\ UNCHANGED repositories

\* RepositoryVersion.delete() of an open version: abort
Abort(v) ==
    /\ v \in OpenIds(versions)
    /\ LET st == delete(ledger, versions, last_version, counts, v)
       IN  /\ Apply(st)
           /\ raised' = st.exc
           /\ begun' = [KeepBegun(None, st.ledger, st.versions) EXCEPT ![v[1]] = NotBegun]
    /\ UNCHANGED repositories

\* ---- delete() of a complete version, one database statement at a time ----
\* The complete branch of delete() opens no transaction: every statement is
\* committed when it returns.

\* delete() is called on the complete version v: self.complete, self.next()
DeleteStart(v) ==
    /\ deleting = NotDeleting
    /\ v \in CompleteIds(versions)
    /\ \A o \in OpenIds(versions) : o[1] # v[1]
    /\ deleting' = [version |-> v, pc |-> 1, ledger |-> ledger, readded |-> {}]
    /\ raised' = NoException
    /\ UNCHANGED <<repositories, last_version, versions, ledger, counts, begun, handle, ever>>

\* the statement of _squash at position pc, applied to the ledger led
squash_statement(led, self, next_version, pc, readded) ==
    LET repo_relations == {rc \in led : rc.repository = self[1]}
        content_added ==
            {rc.content : rc \in {x \in repo_relations : x.version_added = next_version}}
        listed ==
            {rc.content : rc \in {x \in repo_relations :
                x.version_removed = self /\ x.content \in content_added}}
        move_added == [rc \in led |->
            IF rc \in repo_relations /\ rc.version_added = self
            THEN [rc EXCEPT !.version_added = next_version] ELSE rc]
        move_removed == [rc \in led |->
            IF rc \in repo_relations /\ rc.version_removed = self
            THEN [rc EXCEPT !.version_removed = next_version] ELSE rc]
    IN  IF pc = 1
        THEN Result(led \ {rc \in repo_relations :
                        rc.version_added = self /\ rc.version_removed = next_version},
                    NoException)
        ELSE IF pc = 2
        THEN Result({IF rc \in repo_relations /\ rc.version_removed = self /\ rc.content \in listed
                     THEN [rc EXCEPT !.version_removed = None] ELSE rc : rc \in led},
                    NoException)
        ELSE IF pc = 3
        THEN Result(led \ {rc \in repo_relations :
                        rc.version_added = next_version /\ rc.content \in readded},
                    NoException)
        ELSE IF pc = 4
        THEN IF UniqueViolated(move_added) THEN Result(led, IntegrityError)
             ELSE Result({move_added[rc] : rc \in led}, NoException)
        ELSE IF UniqueViolated(move_removed) THEN Result(led, IntegrityError)
             ELSE Result({move_removed[rc] : rc \in led}, NoException)

\* the statement at position pc of the branch of delete() without a successor
latest_statement(led, self, pc) ==
    LET repo_relations == {rc \in led : rc.repository = self[1]}
    IN  IF pc = 1
        THEN Result(led \ {rc \in repo_relations : rc.version_added = self}, NoException)
        ELSE Result({IF rc \in repo_relations /\ rc.version_removed = self
                     THEN [rc EXCEPT !.version_removed = None] ELSE rc : rc \in led},
                    NoException)

\* the number of statements before super().delete()
Statements(vs, self) == IF HasNext(vs, self) THEN 5 ELSE 2

\* the next statement of the delete() under way
DeleteStatement ==
    /\ deleting.version # None
    /\ LET self == deleting.version
           pc == deleting.pc
       IN  IF pc > Statements(versions, self)
           THEN \* super().delete()
                /\ ledger' = CascadeLedger(ledger, self)
                /\ versions' = CascadeVersions(versions, self)
                /\ counts' = CascadeCounts(counts, self)
                /\ raised' = NoException
                /\ deleting' = NotDeleting
           ELSE LET res == IF HasNext(versions, self)
                           THEN squash_statement(ledger, self, next(versions, self),
                                                 pc, deleting.readded)
                           ELSE latest_statement(ledger, self, pc)
                    listed ==
                        {rc.content : rc \in {x \in ledger :
                            /\ x.repository = self[1]
                            /\ x.version_removed = self
                            /\ \E y \in ledger :
                                    /\ y.repository = self[1]
                                    /\ y.version_added = next(versions, self)
                                    /\ y.content = x.content}}
                IN  /\ ledger' = res.ledger
                    /\ raised' = res.exc
                    /\ deleting' =
                            IF res.exc # NoException THEN NotDeleting
                            ELSE [deleting EXCEPT
                                    !.pc = pc + 1,
                                    !.readded = IF HasNext(versions, self) /\ pc = 2
                                                THEN listed ELSE @]
                    /\ UNCHANGED <<versions, counts>>
    /\ begun' = [r \in Repos |-> NotBegun]
    /\ ever' = Ever(versions')
    /\ UNCHANGED <<repositories, last_version, handle>>

\* the process that runs the delete() stops between two statements
DeleteInterrupted ==
    /\ deleting.version # None
    /\ deleting.pc > 1
    /\ deleting' = NotDeleting
    /\ raised' = Interrupted
    /\ UNCHANGED <<repositories, last_version, versions, ledger, counts, begun, handle, ever>>

\* ---- calls made with a Repository object loaded earlier ----
\* process p loads the Repository row r (Repository.objects.get)
Load(p, r) ==
    /\ deleting = NotDeleting
    /\ r \in repositories
    /\ handle[p][r] # last_version[r]
    /\ handle' = [handle EXCEPT ![p][r] = last_version[r]]
    /\ raised' = NoException
    /\ UNCHANGED <<repositories, last_version, versions, ledger, counts, begun, deleting, ever>>

\* Repository.new_version(base_version) on the Repository object of process p:
\* the number is self.last_version + 1 of that object, self.save() writes it,
\* and the object keeps it also when the transaction is rolled back
NewVersionBy(p, r, base_version) ==
    /\ deleting = NotDeleting
    /\ r \in repositories
    /\ base_version \in Ids(versions) \cup {None}
    /\ LET self == [last_version EXCEPT ![r] = handle[p][r]]
           st == new_version(ledger, versions, self, counts, r, base_version)
       IN  /\ IF st.exc = NoException THEN Apply(st)
              ELSE UNCHANGED <<ledger, versions, last_version, counts>>
           /\ raised' = st.exc
           /\ begun' = IF st.exc = NoException
                       THEN [KeepBegun(None, st.ledger, st.versions) EXCEPT
                                ![r] = Begun(ledger, versions, self, r, st.ledger)]
                       ELSE begun
    /\ handle' = [handle EXCEPT ![p][r] = handle[p][r] + 1]
    /\ ever' = Ever(versions')
    /\ UNCHANGED <<repositories, deleting>>

\* the querysets callers pass to add_content / remove_content
ContentSets(cs) == (SUBSET cs) \ {{}}

BodyExceptions == {BodyError}

\* One call of any method, by callers that work on the repositories rs with the
\* content units cs and hand out at most maxv version numbers.
Calls(rs, cs, maxv) ==
    \/ \E r \in rs : SaveRepository(r) /\ Whole
    \/ \E r \in rs : \E b \in (rs \X (0..maxv)) \cup {None} :
            VersionsInUse(last_version) < maxv /\ NewVersion(r, b) /\ Whole
    \/ \E v \in rs \X (0..maxv) : \E S \in ContentSets(cs) : AddContent(v, S) /\ Whole
    \/ \E v \in rs \X (0..maxv) : \E S \in ContentSets(cs) : RemoveContent(v, S) /\ Whole
    \/ \E v \in rs \X (1..maxv) : \E h \in HookBehaviours(cs) : ExitNormally(v, h) /\ Whole
    \/ \E v \in rs \X (1..maxv) : \E e \in BodyExceptions : ExitWithException(v, e) /\ Whole
    \/ \E v \in rs \X (1..maxv) : Abort(v) /\ Whole

Step(rs, cs, maxv) ==
    \/ Calls(rs, cs, maxv)
    \/ \E v \in rs \X (0..maxv) : DeleteComplete(v) /\ Whole

\* two repositories, short histories
Next == Step(Repos, Contents, MaxVersion)

Spec == Init /\ [][Next]_vars

\* one repository, longer histories
NextHistory == Step({1}, Contents, MaxHistory)

SpecHistory == Init /\ [][NextHistory]_vars

\* one repository; a complete version is deleted statement by statement
NextStatements ==
    \/ Calls({1}, Contents, ScenarioVersions)
    \/ \E v \in {1} \X (0..ScenarioVersions) : DeleteStart(v)
    \/ DeleteStatement
    \/ DeleteInterrupted

SpecStatements == Init /\ [][NextStatements]_vars

\* one repository, one content unit, two processes that each hold a
\* Repository object
NextHandles ==
    \/ Calls({1}, {1}, ScenarioVersions)
    \/ \E p \in Procs : Load(p, 1)
    \/ \E p \in Procs : \E b \in ({1} \X (0..ScenarioVersions)) \cup {None} :
            handle[p][1] < ScenarioVersions /\ NewVersionBy(p, 1, b)

SpecHandles == Init /\ [][NextHandles]_vars

\* one repository, three content units, two versions after version 0
NextScenario == Step({1}, 1..ScenarioContent, ScenarioVersions)

SpecScenario == Init /\ [][NextScenario]_vars

\* one repository, one content unit, longer histories
NextUnit == Step({1}, {1}, MaxHistory)

SpecUnit == Init /\ [][NextUnit]_vars

\* two repositories, one content unit, short histories
NextPair == Step(Repos, {1}, MaxVersion)

SpecPair == Init /\ [][NextPair]_vars

\* one repository whose callers only run cycles of new_version, add_content
\* and remove_content, and a finalize (with the inherited
\* hook) of a version whose content differs from the content before
\* new_version: no abort, no exception, no delete
NextCycles ==
    \/ SaveRepository(1) /\ Whole
    \/ \E b \in ({1} \X (0..MaxHistory)) \cup {None} :
            last_version[1] < MaxHistory /\ NewVersion(1, b) /\ Whole
    \/ \E v \in {1} \X (0..MaxHistory) : \E S \in ContentSets(Contents) :
            AddContent(v, S) /\ Whole
    \/ \E v \in {1} \X (0..MaxHistory) : \E S \in ContentSets(Contents) :
            RemoveContent(v, S) /\ Whole
    \/ \E v \in OpenIds(versions) :
            /\ begun[v[1]].version = v
            /\ content(ledger, v) # content(begun[v[1]].ledger, v)
            /\ ExitNormally(v, [kind |-> "pass", ids |-> {}])
            /\ Whole

SpecCycles == Init /\ [][NextCycles]_vars

\* RepositoryVersion.delete() of a complete version by a caller that does not
\* wait for the open version of the repository to be closed
DeleteBesideOpen(v) ==
    /\ v \in CompleteIds(versions)
    /\ \E o \in OpenIds(versions) : o[1] = v[1]
    /\ LET st == delete(ledger, versions, last_version, counts, v)
       IN  /\ Apply(st)
           /\ raised' = st.exc
           /\ begun' = [KeepBegun(None, st.ledger, st.versions) EXCEPT ![v[1]] = NotBegun]
    /\ UNCHANGED repositories

\* one repository; complete versions are deleted also while a version is open
NextBesideOpen ==
    \/ Calls({1}, Contents, ScenarioVersions)
    \/ \E v \in {1} \X (0..ScenarioVersions) : DeleteBesideOpen(v) /\ Whole

SpecBesideOpen == Init /\ [][NextBesideOpen]_vars

\* RepositoryVersion.__exit__ without exception in the body, in a process
\* whose _compute_counts fails
ExitCountsRaise(v, hook) ==
    /\ v \in OpenIds(versions)
    /\ LET st == exit_counts_raise(ledger, versions, last_version, counts, v, hook)
       IN  /\ Apply(st)
           /\ raised' = st.exc
           /\ begun' = [KeepBegun(None, st.ledger, st.versions) EXCEPT ![v[1]] = NotBegun]
    /\ UNCHANGED repositories

\* one repository; the computation of the counts can fail
NextCountsRaise ==
    \/ Calls({1}, Contents, ScenarioVersions)
    \/ \E v \in {1} \X (1..ScenarioVersions) : \E h \in HookBehaviours(Contents) :
            ExitCountsRaise(v, h) /\ Whole

SpecCountsRaise == Init /\ [][NextCountsRaise]_vars

\* the exception of a database statement that fails (connection lost,
\* deadlock, statement timeout)
OperationalError == "OperationalError"

\* Repository.new_version() on the Repository object of process p when a
\* statement after self.last_version = version.number fails: transaction.atomic
\* rolls the rows back, the object keeps the number
NewVersionFails(p, r) ==
    /\ deleting = NotDeleting
    /\ r \in repositories
    /\ handle' = [handle EXCEPT ![p][r] = handle[p][r] + 1]
    /\ raised' = OperationalError
    /\ UNCHANGED <<repositories, last_version, versions, ledger, counts, begun, deleting, ever>>

\* one repository, one content unit, two processes that each hold a
\* Repository object; new_version can fail part-way
NextRetry ==
    \/ Calls({1}, {1}, ScenarioVersions)
    \/ \E p \in Procs : Load(p, 1)
    \/ \E p \in Procs : \E b \in ({1} \X (0..ScenarioVersions)) \cup {None} :
            handle[p][1] < ScenarioVersions /\ NewVersionBy(p, 1, b)
    \/ \E p \in Procs : handle[p][1] < ScenarioVersions /\ NewVersionFails(p, 1)

SpecRetry == Init /\ [][NextRetry]_vars

\* ================================================================ claims

\* the complete versions of the repository of v, other than v
OtherComplete(vs, v) == {w \in CompleteIds(vs) : w[1] = v[1] /\ w # v}

\* C1: deleting a complete version V that has a next complete version N leaves
\* content_at(W) unchanged for every other complete version W of the repository,
\* those before V and those from N on.
C1_SquashKeepsContent ==
    [][\A v \in CompleteIds(versions) :
        (DeleteComplete(v) /\ HasNext(versions, v) /\ raised' = NoException)
            => \A w \in OtherComplete(versions, v) :
                    content(ledger', w) = content(ledger, w)]_vars

\* C2: for every pair of consecutive complete versions P, N = next(P):
\* content_at(N) = (content_at(P) \cup added_at(N)) \ removed_at(N).
C2_ConsecutiveVersionLaw ==
    \A p \in CompleteIds(versions) :
        HasNext(versions, p) =>
            LET n == next(versions, p)
            IN  content(ledger, n)
                    = (content(ledger, p) \cup added(ledger, n)) \ removed(ledger, n)

\* the presence definition of the ledger: some record of the version's own
\* repository was added at or before number n and is not removed at or before n
Present(led, v, c) ==
    \E rc \in led :
        /\ rc.repository = v[1]
        /\ rc.content = c
        /\ rc.version_added[2] <= v[2]
        /\ (rc.version_removed = None \/ rc.version_removed[2] > v[2])

\* C3: content_at and contains agree with the presence definition for every
\* version and content unit; records of other repositories are not counted.
C3_PresenceDefinition ==
    \A v \in Ids(versions) :
        /\ content(ledger, v) = {c \in Contents : Present(ledger, v, c)}
        /\ \A c \in Contents : contains(ledger, v, c) <=> Present(ledger, v, c)

\* a unit is in the version's content while another repository holds a live
\* record of a second unit that the version does not contain
C3_Witness ==
    \E v \in Ids(versions) : \E c \in Contents : \E rc \in ledger :
        /\ contains(ledger, v, c)
        /\ rc.repository # v[1]
        /\ rc.version_added[2] <= v[2]
        /\ rc.version_removed = None
        /\ ~contains(ledger, v, rc.content)

\* a step in which version v comes into being as an open version
Opens(v) == v \notin Ids(versions) /\ v \in OpenIds(versions')

\* C4: right after new_version(base_version = B) returns, the new version has
\* the content of B and the content of B is what it was, for B in the same or
\* in another repository.
C4_BeginClonesBase ==
    [][\A r \in Repos : \A b \in Ids(versions) :
        (/\ Opens(<<r, last_version[r] + 1>>)
         /\ NewVersion(r, b)
         /\ raised' = NoException)
            => /\ content(ledger', <<r, last_version[r] + 1>>) = content(ledger, b)
               /\ content(ledger', b) = content(ledger, b)]_vars

\* an open version, just seeded with the units of a version of another
\* repository that its own repository did not have
C4_Witness ==
    \E v \in OpenIds(versions) :
        LET b == Row(versions, v).base_version
        IN  /\ b # None /\ b[1] # v[1]
            /\ begun[v[1]].version = v
            /\ RowsOf(ledger, v[1]) = begun[v[1]].seeded
            /\ begun[v[1]].seeded # begun[v[1]].ledger
            /\ content(ledger, v) # {}
            /\ content(ledger, v) = content(ledger, b)

\* the hook that plugins inherit: finalize_new_version does nothing
PassHook == [kind |-> "pass", ids |-> {}]

\* a step in which the open version v is closed: completed or deleted
Closes(v) == v \in OpenIds(versions) /\ v \notin OpenIds(versions')

\* the version begun in its repository is v, with only add_content and
\* remove_content on v since
BegunAs(v) == v \in OpenIds(versions) /\ begun[v[1]].version = v

C6_NoNetChangeElided ==
    [][\A v \in OpenIds(versions) :
        (/\ BegunAs(v)
         /\ content(ledger, v) = content(begun[v[1]].ledger, v)
         /\ Closes(v)
         /\ ExitNormally(v, PassHook))
            => /\ v \notin Ids(versions')
               /\ last_version'[v[1]] = begun[v[1]].last_version]_vars

\* C7: abort after new_version and any add_content / remove_content calls puts
\* back the ledger, the versions and last_version that new_version found, and
\* touches no row of another repository.
C7_AbortUndoes ==
    [][\A v \in OpenIds(versions) :
        (/\ BegunAs(v)
         /\ Closes(v)
         /\ (Abort(v) \/ \E e \in BodyExceptions : ExitWithException(v, e)))
            => /\ RowsOf(ledger', v[1]) = begun[v[1]].ledger
               /\ RowsOf(versions', v[1]) = begun[v[1]].versions
               /\ last_version'[v[1]] = begun[v[1]].last_version
               /\ ledger' \ RowsOf(ledger', v[1]) = ledger \ RowsOf(ledger, v[1])]_vars

\* an exception in the with-body has just aborted the open version of a
\* repository that has content: no version is open, the latest version is again
\* the complete one numbered last_version, and a unit is live
C7_Witness ==
    \E r \in repositories :
        /\ raised = BodyError
        /\ \A o \in OpenIds(versions) : o[1] # r
        /\ last_version[r] > 0
        /\ <<r, last_version[r]>> \in CompleteIds(versions)
        /\ \E rc \in ledger : rc.repository = r /\ rc.version_removed = None

\* the ledger without the records v added and with the removals v made cleared
Undone(led, v) ==
    {IF rc.version_removed = v THEN [rc EXCEPT !.version_removed = None] ELSE rc :
        rc \in {x \in led : x.version_added # v}}

\* the step discards the open version v
Discards(v) ==
    /\ v \notin Ids(versions')
    /\ ledger' = Undone(ledger, v)
    /\ \A rc \in ledger' : rc.version_added # v /\ rc.version_removed # v
    /\ last_version'[v[1]] = v[2] - 1

\* C8: when the with-body or the finalize_new_version hook raises, the version
\* is discarded (row deleted, its additions deleted, its removals cleared,
\* last_version back to number - 1) and the caller gets that same exception.
C8_ExceptionDiscards ==
    [][\A v \in OpenIds(versions) :
        Closes(v) =>
            /\ \A e \in BodyExceptions :
                    ExitWithException(v, e) => (Discards(v) /\ raised' = e)
            /\ \A h \in HookBehaviours(Contents) :
                    LET hk == finalize_new_version(ledger, versions, v, h)
                    IN  (hk.exc # NoException /\ ExitNormally(v, h))
                            => (Discards(v) /\ raised' = hk.exc)]_vars

\* the hook has just raised on a version of a repository that keeps content:
\* the version is gone and its number is free again
C8_Witness ==
    \E r \in repositories :
        /\ raised = HookError
        /\ \A o \in OpenIds(versions) : o[1] # r
        /\ last_version[r] > 0
        /\ <<r, last_version[r]>> \in CompleteIds(versions)
        /\ \E rc \in ledger : rc.repository = r /\ rc.version_removed = None

\* C9: add_content and remove_content on a complete version, whichever it is
\* and whatever the ids, raise ResourceImmutableError and return the ledger as
\* it was; the call that raised it changed no ledger row, no version, no counter.
C9_CompleteIsImmutable ==
    [][/\ \A v \in CompleteIds(versions') : \A S \in ContentSets(Contents) :
            /\ add_content(ledger', versions', v, S)
                    = Result(ledger', ResourceImmutableError)
            /\ remove_content(ledger', versions', v, S)
                    = Result(ledger', ResourceImmutableError)
       /\ raised' = ResourceImmutableError
            => UNCHANGED <<ledger, versions, last_version, counts>>]_vars

\* a call has just been refused while version 0 and a later complete version
\* with content exist
C9_Witness ==
    /\ raised = ResourceImmutableError
    /\ \E v \in CompleteIds(versions) :
            /\ v[2] = last_version[v[1]]
            /\ v[2] > 0
            /\ <<v[1], 0>> \in CompleteIds(versions)
            /\ content(ledger, v) # {}

Active(led, r) == {rc.content : rc \in {x \in led : x.repository = r /\ x.version_removed = None}}

\* C11: deleting the latest complete version V (no complete successor) deletes
\* the records V added and re-activates the records V removed: V is gone, the
\* active content of the repository and the content of a version begun next
\* are content_at(previous(V)), and every earlier version shows what it did.
C11_DeleteLatestRestores ==
    [][\A v \in CompleteIds(versions) \ Ids(versions') :
        (~HasNext(versions, v) /\ DeleteComplete(v))
            => /\ ledger' = Undone(ledger, v)
               /\ v \notin Ids(versions')
               /\ \A w \in OtherComplete(versions, v) :
                        content(ledger', w) = content(ledger, w)
               /\ HasPrevious(versions, v) =>
                    /\ Active(ledger', v[1]) = content(ledger, previous(versions, v))
                    /\ content(ledger', <<v[1], last_version'[v[1]] + 1>>)
                            = content(ledger, previous(versions, v))]_vars

\* the latest complete version of a repository has been deleted (its number
\* is not handed out again) and the version before it shows content again
C11_Witness ==
    \E r \in repositories :
        /\ raised = NoException
        /\ \A v \in Ids(versions) : v[1] = r => (v \in CompleteIds(versions) /\ v[2] < last_version[r])
        /\ \E w \in CompleteIds(versions) :
                w[1] = r /\ content(ledger, w) # {} /\ Active(ledger, r) = content(ledger, w)

\* version 0 is empty, version 1 added the units 1, 2 and 3, version 2 removed
\* unit 2, all complete
ScenarioBefore ==
    /\ Ids(versions) = {<<1, 0>>, <<1, 1>>, <<1, 2>>}
    /\ CompleteIds(versions) = Ids(versions)
    /\ ledger = {RepositoryContent(1, 1, <<1, 1>>, None),
                 RepositoryContent(2, 1, <<1, 1>>, <<1, 2>>),
                 RepositoryContent(3, 1, <<1, 1>>, None)}

\* unit 2 has no record, the records of units 1 and 3 are added by version 2,
\* and version 1 is gone
ScenarioAfter ==
    /\ raised = NoException
    /\ Ids(versions) = {<<1, 0>>, <<1, 2>>}
    /\ ledger = {RepositoryContent(1, 1, <<1, 2>>, None),
                 RepositoryContent(3, 1, <<1, 2>>, None)}
    /\ content(ledger, <<1, 2>>) = {1, 3}
    /\ added(ledger, <<1, 2>>) = {1, 3}
    /\ removed(ledger, <<1, 2>>) = {}

\* C12: from empty version 0, v1 adds {A,B,C} and v2 removes {B}; deleting v1
\* deletes B's record and moves the records of A and C to added = v2, so that
\* content_at(v2) = {A,C}, added_at(v2) = {A,C}, removed_at(v2) = {} and v1 no
\* longer exists.
C12_SquashScenario ==
    [][(ScenarioBefore /\ DeleteComplete(<<1, 1>>)) => ScenarioAfter']_vars

\* the scenario has run: version 2 was finalized with two units present,
\* one removed and none added, and now shows units 1 and 3 as added by it
C12_Witness ==
    /\ ScenarioAfter
    /\ last_version[1] = 2
    /\ {[count_type |-> row.count_type, count |-> row.count] :
            row \in {x \in counts : x.repository_version = <<1, 2>>}}
         = {[count_type |-> PRESENT, count |-> 2], [count_type |-> REMOVED, count |-> 1]}

\* C13: deleting a complete version is one atomic step: while the delete is
\* under way the ledger that other processes read is the ledger from before
\* the delete, none of its statements applied.
C13_DeleteIsAtomic ==
    deleting.version # None => ledger = deleting.ledger

\* C14 as claimed: every begin, also one made with a counter read before
\* another begin advanced it, creates a version with a number that no existing
\* version has.
C14_BeginsGetDistinctNumbers ==
    [][\A p \in Procs : \A r \in Repos :
        NewVersionBy(p, r, None)
            => /\ raised' = NoException
               /\ <<r, handle[p][r] + 1>> \in Ids(versions') \ Ids(versions)]_vars

\* C14 amended: two begins on the same repository never both create a version
\* with the same number: a begin whose number is taken fails with
\* IntegrityError and leaves ledger, versions, counter and counts as they
\* were, and no two version rows share (repository, number).
C14_StaleBeginIsRefused ==
    [][/\ Cardinality(Ids(versions')) = Cardinality(versions')
       /\ \A p \in Procs : \A r \in Repos :
            \A b \in Ids(versions) \cup {None} :
                (<<r, handle[p][r] + 1>> \in Ids(versions) /\ NewVersionBy(p, r, b))
                    => /\ raised' = IntegrityError
                       /\ UNCHANGED <<ledger, versions, last_version, counts>>]_vars

\* both processes have called new_version with the same counter value: one
\* open version has that number, and the second call was refused
C14_Witness ==
    \E n \in 1..ScenarioVersions :
        /\ raised = IntegrityError
        /\ \A p \in Procs : handle[p][1] = n
        /\ last_version[1] = n
        /\ <<1, n>> \in OpenIds(versions)
        /\ Cardinality({v \in versions : Id(v) = <<1, n>>}) = 1

C17_AddIsIdempotent ==
    [][versions' = versions =>
        \A v \in OpenIds(versions) : \A S \in ContentSets(Contents) :
            AddContent(v, S) =>
                /\ S \subseteq content(ledger, v) =>
                        (ledger' = ledger /\ raised' = NoException)
                /\ add_content(ledger', versions', v, S) = Result(ledger', raised')]_vars

\* an open version that has added a unit also contains a unit that an
\* earlier version added, and the last call on it raised nothing
C17_Witness ==
    \E v \in OpenIds(versions) :
        /\ raised = NoException
        /\ begun[v[1]].version = v
        /\ added(ledger, v) # {}
        /\ content(ledger, v) \ added(ledger, v) # {}

\* the live records of the units S in the repository of version v
Live(led, v, S) ==
    {rc \in led : rc.repository = v[1] /\ rc.content \in S /\ rc.version_removed = None}

\* C18: remove_content on an open version changes no record when none of the
\* ids is in the version; otherwise it sets version_removed = version on the
\* live records of the ids that are, and every other record, of this and of
\* any other repository, is left as it is.
C18_RemoveSkipsInactive ==
    [][versions' = versions =>
        \A v \in OpenIds(versions) : \A S \in ContentSets(Contents) :
            RemoveContent(v, S) =>
                /\ S \cap content(ledger, v) = {} => ledger' = ledger
                /\ ledger \ Live(ledger, v, S \cap content(ledger, v)) \subseteq ledger'
                /\ raised' = NoException =>
                        ledger' \ ledger =
                            {[rc EXCEPT !.version_removed = v] :
                                rc \in Live(ledger, v, S \cap content(ledger, v))}]_vars

\* an open version has removed a unit while its repository keeps a live
\* record of another unit and another repository keeps a live record too
C18_Witness ==
    \E v \in OpenIds(versions) :
        /\ raised = NoException
        /\ begun[v[1]].version = v
        /\ removed(ledger, v) # {}
        /\ \E rc \in ledger : rc.repository = v[1] /\ rc.version_removed = None
        /\ \E rc \in ledger : rc.repository # v[1] /\ rc.version_removed = None

\* C19: a version begun without base version and finalized after one
\* remove_content(S) that returned, S within the content of the previous
\* complete version P, has added = {}, removed = S and content =
\* content(P) \ S; finalized after one add_content(S) that returned, S
\* disjoint from content(P), it has added = S,
\* removed = {} and content = content(P) \cup S, also for units that an
\* earlier version removed.
C19_OneCallVersions ==
    [][\A v \in OpenIds(versions) :
        (/\ Closes(v)
         /\ BegunAs(v)
         /\ Row(versions, v).base_version = None
         /\ HasPrevious(versions, v)
         /\ ExitNormally(v, PassHook))
        => LET P == content(ledger, previous(versions, v))
               before == begun[v[1]].ledger
           IN  \A S \in ContentSets(Contents) :
                /\ (/\ S \subseteq P
                    /\ remove_content(before, versions, v, S).exc = NoException
                    /\ RowsOf(ledger, v[1]) = remove_content(before, versions, v, S).ledger)
                        => /\ v \in CompleteIds(versions')
                           /\ added(ledger', v) = {}
                           /\ removed(ledger', v) = S
                           /\ content(ledger', v) = P \ S
                /\ (/\ S \cap P = {}
                    /\ add_content(before, versions, v, S).exc = NoException
                    /\ RowsOf(ledger, v[1]) = add_content(before, versions, v, S).ledger)
                        => /\ v \in CompleteIds(versions')
                           /\ added(ledger', v) = S
                           /\ removed(ledger', v) = {}
                           /\ content(ledger', v) = P \cup S]_vars

\* a complete version only removed a unit that an earlier version had added,
\* and a later complete version only added that unit again
C19_Witness ==
    \E w \in CompleteIds(versions) : \E v \in CompleteIds(versions) :
        \E c \in Contents :
            /\ w[1] = v[1] /\ w[2] < v[2]
            /\ added(ledger, w) = {} /\ removed(ledger, w) = {c}
            /\ added(ledger, v) = {c} /\ removed(ledger, v) = {}
            /\ ~contains(ledger, w, c)
            /\ contains(ledger, v, c)
            /\ \E rc \in ledger : rc.content = c /\ rc.version_removed = w
                                    /\ rc.version_added[2] < w[2]

\* the content of the latest version of repository r, {} when it has none
LatestContent(led, vs, r) ==
    LET own == {v \in Ids(vs) : v[1] = r}
    IN  IF own = {} THEN {}
        ELSE content(led, CHOOSE v \in own : \A w \in own : w[2] <= v[2])

\* C20: a version starts with the content of its base version, or of the
\* latest version of its repository when it has no base; every add_content(S)
\* on it that raises nothing makes its content the union with S, and every
\* remove_content(S) that raises nothing the difference with S.
C20_ContentFollowsCalls ==
    [][/\ versions' = versions =>
            \A v \in OpenIds(versions) : \A S \in ContentSets(1..ScenarioContent) :
                /\ (AddContent(v, S) /\ raised' = NoException)
                        => content(ledger', v) = content(ledger, v) \cup S
                /\ (RemoveContent(v, S) /\ raised' = NoException)
                        => content(ledger', v) = content(ledger, v) \ S
       /\ \A v \in OpenIds(versions') \ Ids(versions) :
            LET b == Row(versions', v).base_version
            IN  content(ledger', v) =
                    IF b # None THEN content(ledger, b)
                    ELSE LatestContent(ledger, versions, v[1])]_vars

\* an open version begun from a base version with content has since removed
\* a unit of the base and added a unit the base does not have
C20_Witness ==
    \E v \in OpenIds(versions) :
        LET b == Row(versions, v).base_version
        IN  /\ b # None
            /\ raised = NoException
            /\ begun[v[1]].version = v
            /\ content(ledger, b) \ content(ledger, v) # {}
            /\ content(ledger, v) \ content(ledger, b) # {}
            /\ RowsOf(ledger, v[1]) # begun[v[1]].seeded

\* the rows of the repository of v after remove_content(content_at(v)) and
\* add_content(S) on v, from the rows new_version left
Replaced(vs, v, S) ==
    LET seeded == begun[v[1]].seeded
        rm == remove_content(seeded, vs, v, content(seeded, v))
    IN  IF rm.exc # NoException THEN rm
        ELSE add_content(rm.ledger, vs, v, S)

KindIds(led, v, value) ==
    IF value = ADDED THEN added(led, v)
    ELSE IF value = PRESENT THEN content(led, v)
    ELSE removed(led, v)

\* the count rows that the sets of version v call for: one row per kind and
\* content type with at least one id, none for the others
ExpectedCounts(led, v) ==
    {row \in {[repository_version |-> v, content_type |-> t, count_type |-> value,
               count |-> Cardinality({c \in KindIds(led, v, value) : pulp_type(c) = t})] :
                    t \in {0, 1}, value \in COUNT_TYPE_CHOICES} :
        row.count > 0}

\* C22: right after a version is finalized as complete its count rows are
\* exactly, per kind (added, present, removed) and content type, the number
\* of ids of that type in the added, content and removed sets of the version;
\* a type without ids of a kind has no row, and the version has no other row.
C22_CountsAfterFinalize ==
    [][\A v \in OpenIds(versions) \cap CompleteIds(versions') :
        {row \in counts' : row.repository_version = v} = ExpectedCounts(ledger', v)]_vars

\* a complete version with content of both types, that added units of one
\* type only and removed units of one type, has its four count rows; the version
\* before it has rows of its own
C22_Witness ==
    \E v \in CompleteIds(versions) :
        /\ raised = NoException
        /\ {pulp_type(c) : c \in content(ledger, v)} = {0, 1}
        /\ Cardinality({pulp_type(c) : c \in added(ledger, v)}) = 1
        /\ removed(ledger, v) # {}
        /\ {row \in counts : row.repository_version = v} = ExpectedCounts(ledger, v)
        /\ Cardinality(ExpectedCounts(ledger, v)) = 4
        /\ \E row \in counts : row.repository_version # v

\* the numbers of the version rows of repository r that are complete
CompleteNumbers(vs, r) == {w.number : w \in {x \in vs : x.repository = r /\ x.complete}}

\* C23: next() of a version is the complete version of its repository with
\* the smallest number above its own, previous() the one with the largest
\* number below; open versions, deleted versions and versions of other
\* repositories are skipped, and DoesNotExist is raised exactly when the
\* repository has no complete version above (below) the number.
C23_NextAndPrevious ==
    \A v \in Ids(versions) :
        LET above == {n \in CompleteNumbers(versions, v[1]) : n > v[2]}
            below == {n \in CompleteNumbers(versions, v[1]) : n < v[2]}
        IN  /\ HasNext(versions, v) <=> above # {}
            /\ HasPrevious(versions, v) <=> below # {}
            /\ above # {} =>
                    /\ next(versions, v)[1] = v[1]
                    /\ next(versions, v)[2] \in above
                    /\ \A n \in above : next(versions, v)[2] <= n
                    /\ RepositoryVersion(v[1], next(versions, v)[2], TRUE,
                                         Row(versions, next(versions, v)).base_version)
                            \in versions
            /\ below # {} =>
                    /\ previous(versions, v)[1] = v[1]
                    /\ previous(versions, v)[2] \in below
                    /\ \A n \in below : previous(versions, v)[2] >= n
                    /\ RepositoryVersion(v[1], previous(versions, v)[2], TRUE,
                                         Row(versions, previous(versions, v)).base_version)
                            \in versions

\* versions 0 and 2 of a repository are complete, version 1 was deleted and
\* version 3 is open: next of 0 is 2, previous of 3 is 2, previous of 2 is 0,
\* and 2 has no next, 0 no previous
C23_Witness ==
    /\ CompleteIds(versions) = {<<1, 0>>, <<1, 2>>}
    /\ OpenIds(versions) = {<<1, 3>>}
    /\ 1 \in ever[1]
    /\ next(versions, <<1, 0>>) = <<1, 2>>
    /\ previous(versions, <<1, 3>>) = <<1, 2>>
    /\ previous(versions, <<1, 2>>) = <<1, 0>>
    /\ ~HasNext(versions, <<1, 2>>)
    /\ ~HasPrevious(versions, <<1, 0>>)

\* one call of the hook h on version v, as a caller of add_content and
\* remove_content would see it
HookCall(led, vs, v, h) ==
    IF h.kind = "add" THEN add_content(led, vs, v, h.ids)
    ELSE IF h.kind = "remove" THEN remove_content(led, vs, v, h.ids)
    ELSE IF h.kind = "raise" THEN Result(led, HookError)
    ELSE Result(led, NoException)

\* C24: finalize runs the hook once, on the version while it is open: the
\* hook's add_content or remove_content is not refused as on a complete
\* version, the records it writes are those of one call and count for the
\* no-change test, and the version becomes complete only when the hook has
\* returned without raising; when it raises, the version is gone.
C24_HookRunsOnOpenVersion ==
    [][\A v \in OpenIds(versions) \ OpenIds(versions') : \A h \in HookBehaviours(Contents) :
        ExitNormally(v, h) =>
            LET hk == HookCall(ledger, versions, v, h)
            IN  /\ hk.exc # ResourceImmutableError
                /\ v \in CompleteIds(versions') =>
                        (hk.exc = NoException /\ ledger' = hk.ledger)
                /\ (hk.exc = NoException
                        /\ (added(hk.ledger, v) # {} \/ removed(hk.ledger, v) # {}))
                        => (v \in CompleteIds(versions') /\ raised' = NoException)
                /\ hk.exc # NoException =>
                        (v \notin Ids(versions') /\ raised' = hk.exc)]_vars

\* a version that is complete with one added unit as its only change, which
\* the hook's add_content can have written, while another repository has
\* lost its open version to a hook that raised
C24_Witness ==
    \E v \in CompleteIds(versions) : \E r \in repositories :
        /\ raised = HookError
        /\ r # v[1]
        /\ last_version[r] = 0
        /\ Cardinality(added(ledger, v)) = 1
        /\ removed(ledger, v) = {}
        /\ content(ledger, v) = added(ledger, v)
        /\ \E row \in counts : row.repository_version = v /\ row.count_type = ADDED

\* C25: whenever the with-block of an open version ends, with or without an
\* exception in the body, whatever the hook does, __exit__ leaves the version
\* complete or deleted, never open; and when an exception leaves the block
\* (raised in the body or by the hook) the version is deleted, not complete.
C25_ExitNeverLeavesOpen ==
    \A v \in OpenIds(versions) :
        \A e \in BodyExceptions \cup {NoException} : \A h \in HookBehaviours(Contents) :
            LET st == exit(ledger, versions, last_version, counts, v, e, h)
            IN  /\ v \notin OpenIds(st.versions)
                /\ st.exc # NoException => v \notin Ids(st.versions)
                /\ e # NoException => st.exc = e

\* an exception in the with-body has just ended the second with-block of a
\* repository: its first one left version 1 complete with count rows, and
\* no version is open
C25_Witness ==
    \E r \in repositories :
        /\ raised = BodyError
        /\ OpenIds(versions) = {}
        /\ last_version[r] = 1
        /\ <<r, 1>> \in CompleteIds(versions)
        /\ \E row \in counts : row.repository_version = <<r, 1>>
        /\ \A q \in repositories : q # r => last_version[q] = 0

\* C26: saving a new repository creates one version row for it, number 0,
\* complete, without base version, with empty content, added and removed
\* sets; last_version is 0 and version 0 is the latest version of the
\* repository; no other row is written or changed.
C26_CreateMakesVersionZero ==
    [][\A r \in repositories' \ repositories :
        /\ RowsOf(versions', r) = {RepositoryVersion(r, 0, TRUE, None)}
        /\ versions' \ RowsOf(versions', r) = versions
        /\ content(ledger', <<r, 0>>) = {}
        /\ added(ledger', <<r, 0>>) = {}
        /\ removed(ledger', <<r, 0>>) = {}
        /\ last_version'[r] = 0
        /\ LatestContent(ledger', versions', r) = content(ledger', <<r, 0>>)
        /\ ~HasNext(versions', <<r, 0>>) /\ ~HasPrevious(versions', <<r, 0>>)
        /\ UNCHANGED <<ledger, counts>>]_vars

\* a repository has just been created while another one has two complete
\* versions and content: the new one has version 0 alone, and no record
C26_Witness ==
    \E r \in repositories : \E q \in repositories :
        /\ raised = NoException
        /\ RowsOf(versions, r) = {RepositoryVersion(r, 0, TRUE, None)}
        /\ RowsOf(ledger, r) = {}
        /\ last_version[r] = 0
        /\ q # r
        /\ last_version[q] = 1
        /\ <<q, 1>> \in CompleteIds(versions)
        /\ content(ledger, <<q, 1>>) # {}

\* C27: in a repository whose callers only run new_version, mutate, finalize
\* cycles that each change the content, the k-th finalize completes the
\* version numbered k, the complete versions are numbered 0..k without gap,
\* an open version has the next number, and last_version is the highest
\* number.
C27_CyclesNumberVersions ==
    [][/\ \A v \in OpenIds(versions) \ OpenIds(versions') :
            /\ v \in CompleteIds(versions')
            /\ v[2] = Cardinality(CompleteNumbers(versions, v[1]))
            /\ last_version'[v[1]] = v[2]
       /\ \A r \in repositories' :
            LET k == Cardinality(CompleteNumbers(versions', r)) - 1
            IN  /\ CompleteNumbers(versions', r) = 0..k
                /\ {w[2] : w \in {x \in OpenIds(versions') : x[1] = r}} \subseteq {k + 1}
                /\ last_version'[r] = Cardinality(RowsOf(versions', r)) - 1]_vars

\* three cycles have run: versions 1, 2 and 3 are complete, each with a
\* change of its own, and last_version is 3
C27_Witness ==
    /\ raised = NoException
    /\ CompleteIds(versions) = {<<1, 0>>, <<1, 1>>, <<1, 2>>, <<1, 3>>}
    /\ OpenIds(versions) = {}
    /\ last_version[1] = 3
    /\ \A n \in 1..3 : added(ledger, <<1, n>>) # {} \/ removed(ledger, <<1, n>>) # {}
    /\ \E n \in 1..3 : removed(ledger, <<1, n>>) # {}

\* C28: add_content and remove_content, on any version and with any ids,
\* raising or not, write ledger records only: last_version, the version rows
\* (their set, complete flags and base versions), the count rows and the
\* repositories are as before the call.
C28_MutationFrame ==
    [][\A v \in Ids(versions) : \A S \in ContentSets(Contents) :
        (AddContent(v, S) \/ RemoveContent(v, S))
            => /\ last_version' = last_version
               /\ versions' = versions
               /\ counts' = counts
               /\ repositories' = repositories]_vars

\* an open version has added one unit and removed another while the complete
\* version before it keeps its count rows and the open one has none
C28_Witness ==
    \E v \in OpenIds(versions) :
        /\ raised = NoException
        /\ begun[v[1]].version = v
        /\ added(ledger, v) # {}
        /\ removed(ledger, v) # {}
        /\ last_version[v[1]] = v[2]
        /\ \A row \in counts : row.repository_version # v
        /\ HasPrevious(versions, v)
        /\ \E row \in counts : row.repository_version = previous(versions, v)

C30_MutationNeverFails ==
    [][versions' = versions =>
        \A v \in OpenIds(versions) : \A S \in ContentSets(Contents) :
            (AddContent(v, S) \/ RemoveContent(v, S)) => raised' = NoException]_vars

\* an upper bound of the version numbers, for the end of a live record
Forever == MaxHistory + ScenarioVersions + MaxVersion + 1

\* the presence interval [version_added, version_removed) of a record
From(rc) == rc.version_added[2]

Until(rc) == IF rc.version_removed = None THEN Forever ELSE rc.version_removed[2]

\* two records of one unit in one repository are present at a common number
Overlap(a, b) ==
    /\ a # b
    /\ a.repository = b.repository
    /\ a.content = b.content
    /\ From(a) < Until(a) /\ From(b) < Until(b)
    /\ From(a) < Until(b) /\ From(b) < Until(a)

\* C31: in every reachable state a unit has at most one live record
\* (version_removed null) per repository, and the presence intervals of its
\* records do not overlap.
C31_NoOverlap ==
    \A a \in ledger : \A b \in ledger :
        /\ (a # b /\ a.repository = b.repository /\ a.content = b.content)
                => (a.version_removed # None \/ b.version_removed # None)
        /\ ~Overlap(a, b)

\* C32: in every reachable state the count rows of every complete version
\* are the counts that its added, content and removed sets in the ledger call
\* for, also the rows of a version into which another one was squashed.
C32_CountsMatchLedger ==
    \A v \in CompleteIds(versions) :
        {row \in counts : row.repository_version = v} = ExpectedCounts(ledger, v)

\* the consecutive-version law on the rows led, vs: every complete version
\* with a next complete version N has content(N) = (content \cup added(N))
\* \ removed(N)
Law(led, vs) ==
    \A p \in CompleteIds(vs) :
        HasNext(vs, p) =>
            LET n == next(vs, p)
            IN  content(led, n) = (content(led, p) \cup added(led, n)) \ removed(led, n)

\* C33: when the law holds for every pair of consecutive complete versions
\* and a complete version with a next version is deleted, the law holds for
\* every pair of consecutive complete versions after the delete, the new
\* pair previous(V), next(V) included.
C33_SquashKeepsLaw ==
    [][\A v \in CompleteIds(versions) \ Ids(versions') :
        (/\ HasNext(versions, v)
         /\ DeleteComplete(v)
         /\ Law(ledger, versions))
            => Law(ledger', versions')]_vars

\* C34: deleting the latest complete version while a later version of the
\* same repository is open leaves the content of the open version as it was.
C34_OpenContentKept ==
    [][\A v \in CompleteIds(versions) : \A o \in OpenIds(versions) :
        (/\ o[1] = v[1] /\ o[2] > v[2]
         /\ ~HasNext(versions, v)
         /\ DeleteBesideOpen(v))
            => content(ledger', o) = content(ledger, o)]_vars

\* C35: when finalize fails while the counts are computed, after complete
\* was saved, the version is discarded as by abort: its row is deleted, the
\* records it added are deleted, the removals it made are cleared and
\* last_version is back at number - 1.
C35_LateFailureDiscards ==
    [][\A v \in OpenIds(versions) \ OpenIds(versions') :
        \A h \in HookBehaviours(Contents) :
            (ExitCountsRaise(v, h) /\ raised' = CountsError) => Discards(v)]_vars

\* C36: latest_version() of a repository that has a version returns its
\* version with the highest number, and None only when the repository has no
\* version, also after its highest-numbered complete version was deleted.
C36_LatestVersion ==
    \A r \in repositories :
        LET own == {v \in Ids(versions) : v[1] = r}
        IN  IF own = {} THEN latest_version(versions, last_version, r) = None
            ELSE /\ latest_version(versions, last_version, r) \in own
                 /\ \A w \in own : w[2] <= latest_version(versions, last_version, r)[2]

\* every record names versions that exist, in the record's own repository
Referenced(led, vs) ==
    \A rc \in led :
        /\ rc.version_added \in Ids(vs)
        /\ rc.version_added[1] = rc.repository
        /\ rc.version_removed # None =>
                (rc.version_removed \in Ids(vs) /\ rc.version_removed[1] = rc.repository)

\* C37: in every reachable state version_added and a non-null
\* version_removed of every record name existing versions of the record's
\* repository; when a version is deleted (squash, no successor, abort) no
\* record names it afterwards, and the deletion of its row takes no record
\* along: the ledger is the one the squash left, or the one with the
\* version's additions deleted and its removals cleared.
C37_RecordsNameVersions ==
    [][/\ Referenced(ledger', versions')
       /\ \A v \in Ids(versions) \ Ids(versions') :
            /\ \A rc \in ledger' : rc.version_added # v /\ rc.version_removed # v
            /\ ledger' = IF IsComplete(versions, v) /\ HasNext(versions, v)
                          THEN squash(ledger, v, next(versions, v)).ledger
                          ELSE Undone(ledger, v)]_vars

\* version 1 of a repository was squashed into version 2, which now names
\* the record of a unit as added by it; a second repository exists
C37_Witness ==
    \E r \in repositories : \E q \in repositories :
        /\ raised = NoException
        /\ q # r
        /\ 1 \in ever[r]
        /\ <<r, 1>> \notin Ids(versions)
        /\ <<r, 2>> \in CompleteIds(versions)
        /\ \E rc \in ledger : rc.repository = r /\ rc.version_added = <<r, 2>>
        /\ \E rc \in ledger : rc.repository = r /\ rc.version_removed = <<r, 2>>
        /\ \A row \in counts : row.repository_version = <<r, 2>> => row.count_type # ADDED

\* C38: when new_version fails part-way, the counter, the version rows, the
\* ledger and the counts are as before the call, and the next new_version of
\* the caller that succeeds creates the version with the number that the
\* failed call would have used.
C38_BeginAllOrNothing ==
    [][\A p \in Procs :
        (\/ NewVersionFails(p, 1)
         \/ \E b \in Ids(versions) \cup {None} :
                NewVersionBy(p, 1, b) /\ raised' # NoException)
            => /\ UNCHANGED <<ledger, versions, last_version, counts>>
               /\ LET self == [last_version' EXCEPT ![1] = handle'[p][1]]
                      st == new_version(ledger', versions', self, counts', 1, None)
                  IN  st.exc = NoException =>
                        <<1, handle[p][1] + 1>> \in Ids(st.versions) \ Ids(versions')]_vars

====
